---------------------------- MODULE Spec2Model ----------------------------
(***************************************************************************)
(* A model of the two cores of src/main.py:                                *)
(*   - the share-table extractor, extract_domains_and_shares, with the     *)
(*     tab-separated parser parse_impression_share_data beside it;         *)
(*   - the competitor discovery chain, find_similar_landing_pages, made of *)
(*     find_similar_landing_pages_with_ai_filtering (State A) and          *)
(*     find_similar_landing_pages_original (State C);                      *)
(*   - the entry point of the events, handle_slack_event, with its cache   *)
(*     of event ids, as one call after another and as two calls that       *)
(*     overlap.                                                            *)
(*                                                                         *)
(* A text is a sequence of tokens.  The regular expressions of the source  *)
(* are modelled by what they match on such a text: domain_pattern matches  *)
(* a "dom" token, percent_pattern matches a "pct" token ("30%" or "30 %")  *)
(* and a "cens" token ("<10%" or "< 10 %"), and nothing else.  Share       *)
(* values are whole numbers.                                               *)
(***************************************************************************)
EXTENDS Integers, Sequences, FiniteSets, TLC

VARIABLES
    text,                  \* the text handed to the parser, a sequence of tokens
    delim,                 \* what separates two tokens of one line
    pc,                    \* where extract_domains_and_shares stands
    domain_percent_pairs,  \* its list of captured (domain, value, share) pairs
    top_domains,           \* the list it returns
    stagesRun,             \* the approaches whose body has run
    caught,                \* whether its `except Exception` handler has run
    outcome,               \* "running", "returned" or "raised"
    pass,                  \* 1: the input text; 2: the text rendered from pass 1
    firstResult,           \* the list returned by pass 1, kept for pass 2
    impression_share_data, \* what parse_impression_share_data returned
    \* The discovery chain.  Its inputs:
    original_url,          \* the seed URL
    additional_keywords,   \* the identifiers of the share table (csv_domains)
    impression_data,       \* the domain cells of its competitors; <<>>: None
    world,                 \* what the searches of this run can give
    \* where the chain stands
    dpc,
    \* find_similar_landing_pages_with_ai_filtering (State A):
    similar_lps,           \* its running list of records
    existing_domains,      \* the domains it has taken
    search_results_collection, \* whether it holds any search's results
    urlparse_bound,        \* whether its local name urlparse is bound
    \* find_similar_landing_pages_original (State C):
    o_similar_lps,         \* its running list of records
    o_existing_domains,    \* the domains it has taken
    keywords,              \* its search keywords
    domain_i,              \* the identifiers searched so far
    keyword_i,             \* the keywords searched so far
    result_i,              \* the results of the current search seen so far
    caller,                \* who called it
    original_runs,         \* how many times it has been entered
    \* the world outside
    failures,              \* how many page analyses have failed
    succeeded,             \* whether a page of another domain was analysed
    unpaused,              \* the gateway calls since the last time.sleep
    \* what find_similar_landing_pages returned
    result,
    \* handle_slack_event:
    processed_event_ids,   \* the global set of the ids of the accepted events
    event_timestamps,      \* the global map from such an id to its time
    now,                   \* the clock, time.time(), in seconds
    event,                 \* the event_data of the last call
    status,                \* the status the last call returned
    handed,                \* what it handed to find_similar_landing_pages
    accepted,              \* when an id was last accepted, if ever
    failed,                \* the accepted ids whose handling raised
    deliveries,            \* how many calls there have been
    hpc,                   \* where each of two interleaved calls stands
    call_event_id          \* the local event_id of each of the two calls

xvars == <<text, delim, pc, domain_percent_pairs, top_domains, stagesRun,
           caught, outcome, pass, firstResult, impression_share_data>>

dvars == <<original_url, additional_keywords, impression_data, world, dpc,
           similar_lps, existing_domains, search_results_collection,
           urlparse_bound,
           o_similar_lps, o_existing_domains, keywords, domain_i, keyword_i,
           result_i, caller, original_runs, failures, succeeded, unpaused,
           result>>

evars == <<processed_event_ids, event_timestamps, now, event, status, handed,
           accepted, failed, deliveries, hpc,
           call_event_id>>

vars == <<xvars, dvars, evars>>

-----------------------------------------------------------------------------
(* Bounds of the model.                                                    *)

\* The longest free-form text, in tokens.
MaxLen == 3

\* The most rows of a clean "domain share" table.
MaxRows == 8

-----------------------------------------------------------------------------
(* Program constants.                                                      *)

\* `if value >= 10`, the floor of the post-filter.
ShareFloor == 10

\* `filtered_pairs[:7]`.
TopCount == 7

-----------------------------------------------------------------------------
(* Tokens.                                                                 *)

Dom(d) == [k |-> "dom", d |-> d, v |-> 0, sp |-> FALSE]
\* "30%" (sp = FALSE) or "30 %" (sp = TRUE)
Pct(v, sp) == [k |-> "pct", d |-> "", v |-> v, sp |-> sp]
\* "<10%" (sp = FALSE) or "< 10 %" (sp = TRUE)
Cens(sp) == [k |-> "cens", d |-> "", v |-> 10, sp |-> sp]
\* a bare number, "30"
Num(v) == [k |-> "num", d |-> "", v |-> v, sp |-> FALSE]
\* a word that is neither a domain nor a number, "hello"
Word == [k |-> "word", d |-> "", v |-> 0, sp |-> FALSE]
\* a line break
NL == [k |-> "nl", d |-> "", v |-> 0, sp |-> FALSE]
\* a piece of a token that whitespace cut off: "<", "10", "%", ":"
Frag == [k |-> "frag", d |-> "", v |-> 0, sp |-> FALSE]
\* the cell a row lacks
NoCell == [k |-> "none", d |-> "", v |-> 0, sp |-> FALSE]

\* The own-row marker of the share table (the third alternative of
\* domain_pattern, the Japanese word for "self").
OwnRow == "jibun"

Domains == {"a.com", "b.com", OwnRow}
Values == {5, 20, 30, 150}
SpacedValues == {5, 30}

Tokens ==
    {Dom(d) : d \in Domains}
        \cup {Pct(v, FALSE) : v \in Values}
        \cup {Pct(v, TRUE) : v \in SpacedValues}
        \cup {Cens(FALSE), Cens(TRUE), Num(30), Word, NL}

FreeTexts == UNION {[1..n -> Tokens] : n \in 0..MaxLen}

\* The domains of the rows of a clean table, one per row.
TableDomain ==
    <<"a.com", "b.com", "c.com", "d.com", "e.com",
      "f.com", "g.com", "h.com", "i.com", "j.com">>
TableValues == {5, 20, 30}

\* The table whose i-th row is "TableDomain[i] vals[i]%".
TableText(vals) ==
    [i \in 1..(3 * Len(vals)) |->
        IF i % 3 = 1 THEN Dom(TableDomain[(i + 2) \div 3])
        ELSE IF i % 3 = 2 THEN Pct(vals[(i + 1) \div 3], FALSE)
        ELSE NL]

TableTexts == {TableText(vals) : vals \in UNION {[1..n -> TableValues] : n \in 1..MaxRows}}

\* Texts in which two identifiers, or one identifier twice, each carry a
\* share: on one line, or on two lines.
OccurrenceDomains == {"a.com", "b.com"}
OccurrenceShares == {Pct(5, FALSE), Pct(20, FALSE), Pct(30, FALSE), Cens(FALSE)}

OccurrenceTexts ==
    {<<Dom(d1), s1>> \o sep \o <<Dom(d2), s2>> :
        d1 \in OccurrenceDomains, d2 \in OccurrenceDomains,
        s1 \in OccurrenceShares, s2 \in OccurrenceShares,
        sep \in {<<>>, <<NL>>}}

Delims == {"space", "comma", "tab"}

-----------------------------------------------------------------------------
(* Helpers of the parsers.                                                 *)

\* `text.split('\n')`: the lines of a text, as sequences of tokens.
RECURSIVE SplitLines(_, _, _, _)
SplitLines(t, i, done, cur) ==
    IF i > Len(t) THEN Append(done, cur)
    ELSE IF t[i].k = "nl" THEN SplitLines(t, i + 1, Append(done, cur), <<>>)
    ELSE SplitLines(t, i + 1, done, Append(cur, t[i]))

Lines(t) == SplitLines(t, 1, <<>>, <<>>)

\* A test that finds no identifier captured.
NeverCaptured(pairs, d) == FALSE

\* `any(d == domain for d, _, _ in domain_percent_pairs)`
Captured(pairs, d) == \E i \in 1..Len(pairs) : pairs[i].d = d

\* What percent_pattern matches.
IsPercent(tok) == tok.k \in {"pct", "cens"}

\* `"< 10" in share or "<10" in share`
IsCensored(tok) == tok.k = "cens"

Pair(d, tok) == [d |-> d, v |-> tok.v, share |-> tok]

-----------------------------------------------------------------------------
(* Approach 1: a domain and the percentages after it on its line.          *)

\* The loop over percent_matches for one domain match.
RECURSIVE ScanPercents(_, _, _, _)
ScanPercents(line, j, d, pairs) ==
    IF j > Len(line) THEN pairs
    ELSE IF IsPercent(line[j]) /\ ~IsCensored(line[j]) /\ ~Captured(pairs, d)
    THEN Append(pairs, Pair(d, line[j]))
    ELSE ScanPercents(line, j + 1, d, pairs)

\* The loop over domain_matches of one line.
RECURSIVE ScanLine(_, _, _)
ScanLine(line, i, pairs) ==
    IF i > Len(line) THEN pairs
    ELSE IF line[i].k = "dom"
    THEN ScanLine(line, i + 1, ScanPercents(line, i + 1, line[i].d, pairs))
    ELSE ScanLine(line, i + 1, pairs)

RECURSIVE ScanLines(_, _, _)
ScanLines(ls, n, pairs) ==
    IF n > Len(ls) THEN pairs
    ELSE ScanLines(ls, n + 1, ScanLine(ls[n], 1, pairs))

LinePairs(t) == ScanLines(Lines(t), 1, <<>>)

-----------------------------------------------------------------------------
(* Approach 2: a word that starts with a domain, and the word after it.    *)

\* The whitespace-separated words a token is made of.
Pieces(tok) ==
    IF tok.k = "pct" /\ tok.sp THEN << <<Frag>>, <<Frag>> >>
    ELSE IF tok.k = "cens" /\ tok.sp THEN << <<Frag>>, <<Frag>>, <<Frag>> >>
    ELSE << <<tok>> >>

Flush(ws, cur) == IF cur = <<>> THEN ws ELSE Append(ws, cur)

\* `re.split(r'\s+', text)` without its empty words: `cur` is the word
\* being read.  A comma joins two tokens into one word; a space, a tab and
\* the ": " of a rendered list end the word.
RECURSIVE SplitWords(_, _, _, _, _)
SplitWords(t, d, i, ws, cur) ==
    IF i > Len(t) THEN Flush(ws, cur)
    ELSE IF t[i].k = "nl" THEN SplitWords(t, d, i + 1, Flush(ws, cur), <<>>)
    ELSE
        LET prev == IF d = "colon" /\ cur # <<>> THEN Append(cur, Frag) ELSE cur
            ws1 == IF d = "comma" THEN ws ELSE Flush(ws, prev)
            cur1 == IF d = "comma" THEN cur ELSE <<>>
            ps == Pieces(t[i])
            n == Len(ps)
            ws2 == ws1 \o (IF n = 1 THEN <<>>
                           ELSE <<cur1 \o ps[1]>> \o SubSeq(ps, 2, n - 1))
            cur2 == IF n = 1 THEN cur1 \o ps[1] ELSE ps[n]
        IN SplitWords(t, d, i + 1, ws2, cur2)

Words(t, d) == SplitWords(t, d, 1, <<>>, <<>>)

\* The loop over the words: `re.match` looks at the start of a word.
RECURSIVE ScanWords(_, _, _)
ScanWords(ws, i, pairs) ==
    IF i > Len(ws) THEN pairs
    ELSE IF /\ ws[i][1].k = "dom"
            /\ i + 1 <= Len(ws)
            /\ IsPercent(ws[i + 1][1])
            /\ ~IsCensored(ws[i + 1][1])
            /\ ~Captured(pairs, ws[i][1].d)
    THEN ScanWords(ws, i + 1, Append(pairs, Pair(ws[i][1].d, ws[i + 1][1])))
    ELSE ScanWords(ws, i + 1, pairs)

TokenPairs(t, d) == ScanWords(Words(t, d), 1, <<>>)

-----------------------------------------------------------------------------
(* Approach 3: a domain and the first number after it, anywhere.           *)

HasDigits(tok) == tok.k \in {"pct", "cens", "num"}

\* The index of the first token from j on that holds a digit, or 0.
RECURSIVE NextNumber(_, _)
NextNumber(t, j) ==
    IF j > Len(t) THEN 0
    ELSE IF HasDigits(t[j]) THEN j
    ELSE NextNumber(t, j + 1)

\* `re.findall(combined_pattern, text)`.  combined_pattern wraps
\* domain_pattern, which has a group of its own, in a second group: a match
\* is a tuple of three strings, the domain twice and the number.
RECURSIVE FindCombined(_, _, _)
FindCombined(t, i, found) ==
    IF i > Len(t) THEN found
    ELSE IF t[i].k = "dom"
    THEN LET j == NextNumber(t, i + 1)
         IN IF j = 0 THEN found
            ELSE FindCombined(t, j + 1, Append(found, <<t[i].d, t[i].d, t[j].v>>))
    ELSE FindCombined(t, i + 1, found)

CombinedMatches(t) == FindCombined(t, 1, <<>>)

\* `for domain, share_value in combined_matches` unpacks every match into
\* two names: a match of another length raises ValueError.
UnpackRaises(matches) == \E i \in 1..Len(matches) : Len(matches[i]) # 2

\* The pairs of the loop when no unpacking raises.
RECURSIVE CombinedPairs(_, _, _)
CombinedPairs(matches, i, pairs) ==
    IF i > Len(matches) THEN pairs
    ELSE IF ~Captured(pairs, matches[i][1])
    THEN CombinedPairs(matches, i + 1,
            Append(pairs, Pair(matches[i][1], Pct(matches[i][2], FALSE))))
    ELSE CombinedPairs(matches, i + 1, pairs)

-----------------------------------------------------------------------------
(* Approach 4: all domains and all percentages, paired by position.        *)

AllDomains(t) == SelectSeq(t, LAMBDA tok : tok.k = "dom")

\* `re.findall(r'(\\d+\\.?\\d*)\\s*%', text)`: in this raw string every
\* backslash is doubled, so the pattern asks for a backslash character
\* before each d and s.  No token of a text holds a backslash.
AllPercents(t) == SelectSeq(t, LAMBDA tok : tok.k = "backslash")

\* `if float_value >= 10`, then `valid_percents.sort(reverse=True)`
ValidPercents(t) == SelectSeq(AllPercents(t), LAMBDA tok : tok.v >= 10)

\* The largest element of a non-empty sequence, the first of equal ones.
RECURSIVE MaxIndex(_, _, _)
MaxIndex(s, i, best) ==
    IF i > Len(s) THEN best
    ELSE MaxIndex(s, i + 1, IF s[i].v > s[best].v THEN i ELSE best)

RECURSIVE SortPercents(_)
SortPercents(s) ==
    IF s = <<>> THEN <<>>
    ELSE LET m == MaxIndex(s, 1, 1)
         IN <<s[m]>> \o SortPercents(SubSeq(s, 1, m - 1) \o SubSeq(s, m + 1, Len(s)))

Abs(n) == IF n < 0 THEN -n ELSE n

PositionalPairs(t) ==
    LET ds == AllDomains(t)
        ps == SortPercents(ValidPercents(t))
        n == IF Len(ds) < Len(ps) THEN Len(ds) ELSE Len(ps)
        m == IF n < 7 THEN n ELSE 7
    IN IF Len(ds) > 0 /\ Len(ps) > 0 /\ Abs(Len(ds) - Len(ps)) < 5
       THEN [i \in 1..m |-> Pair(ds[i].d, ps[i])]
       ELSE <<>>

-----------------------------------------------------------------------------
(* The post-filter.                                                        *)

FilterPairsNoFloor(pairs) ==
    SelectSeq(pairs, LAMBDA p : ~IsCensored(p.share))

\* `if value >= 10 and "< 10" not in share and "<10" not in share`
FilterPairs(pairs) ==
    SelectSeq(pairs, LAMBDA p : p.v >= ShareFloor /\ ~IsCensored(p.share))

\* x put behind the last element that is not smaller than it.
RECURSIVE InsertDescending(_, _)
InsertDescending(s, x) ==
    IF s = <<>> THEN <<x>>
    ELSE IF s[1].v >= x.v THEN <<s[1]>> \o InsertDescending(Tail(s), x)
    ELSE <<x>> \o s

\* x put before the first element that is not larger than it.
RECURSIVE InsertBeforeEqual(_, _)
InsertBeforeEqual(s, x) ==
    IF s = <<>> THEN <<x>>
    ELSE IF s[1].v > x.v THEN <<s[1]>> \o InsertBeforeEqual(Tail(s), x)
    ELSE <<x>> \o s

RECURSIVE SortUnstable(_, _)
SortUnstable(s, acc) ==
    IF s = <<>> THEN acc
    ELSE SortUnstable(Tail(s), InsertBeforeEqual(acc, Head(s)))

SortDescendingUnstable(s) == SortUnstable(s, <<>>)

RECURSIVE SortStable(_, _)
SortStable(s, acc) ==
    IF s = <<>> THEN acc
    ELSE SortStable(Tail(s), InsertDescending(acc, Head(s)))

\* `filtered_pairs.sort(key=lambda x: x[1], reverse=True)`: list.sort is
\* stable, also with reverse=True.
SortDescending(s) == SortStable(s, <<>>)

TopDomainsNoCap(s) == s

\* `filtered_pairs[:7]`
TopDomains(s) == SubSeq(s, 1, IF Len(s) < TopCount THEN Len(s) ELSE TopCount)

HandlerReraises == [outcome |-> "raised", list |-> <<>>]

\* `except Exception as e: ... return []`
Handler == [outcome |-> "returned", list |-> <<>>]

-----------------------------------------------------------------------------
(* analyze_csv_data renders the list it got, one "domain: share" per item. *)

RenderTextNoPercent(list) ==
    [i \in 1..(3 * Len(list)) |->
        IF i % 3 = 1 THEN Dom(list[(i + 2) \div 3].d)
        ELSE IF i % 3 = 2 THEN Num(list[(i + 1) \div 3].v)
        ELSE NL]

\* `f"{domain}: {share}" for domain, _, share in top_domains`: share is the
\* matched text, not the number.
RenderText(list) ==
    [i \in 1..(3 * Len(list)) |->
        IF i % 3 = 1 THEN Dom(list[(i + 2) \div 3].d)
        ELSE IF i % 3 = 2 THEN list[(i + 1) \div 3].share
        ELSE NL]

-----------------------------------------------------------------------------
(* parse_impression_share_data.  Its text is a header line of the two      *)
(* columns (domain, share) and the lines of `text` under it; the cells of  *)
(* a line are its tokens.                                                  *)

\* `float(...)` of a share cell raises for anything but a number.
ShareCellFails(cell) ==
    \/ cell.k = "pct" /\ ~cell.sp
    \/ cell.k = "cens" /\ ~cell.sp
    \/ cell.k \in {"dom", "word"}

ShareCellValueNotHalved(cell) ==
    IF cell.k = "none" THEN 0 ELSE cell.v

\* `share_value.startswith('< ')`: half of the bound; else the number.
ShareCellValue(cell) ==
    IF cell.k = "none" THEN 0
    ELSE IF cell.k = "cens" THEN cell.v \div 2
    ELSE cell.v

\* `dict(zip(headers, values))` with impression_share_value added.
RowData(line) ==
    LET share == IF Len(line) >= 2 THEN line[2] ELSE NoCell
    IN [dom |-> line[1], share |-> share, v |-> ShareCellValue(share)]

NonEmptyLines(t) == SelectSeq(Lines(t), LAMBDA line : line # <<>>)

RowFails(line) == Len(line) >= 2 /\ ShareCellFails(line[2])

IsOwnRow(row) == row.dom.k = "dom" /\ row.dom.d = OwnRow

ParseImpressionShareData(t) ==
    LET ls == NonEmptyLines(t)
        rows == [i \in 1..Len(ls) |-> RowData(ls[i])]
        own == SelectSeq(rows, IsOwnRow)
        data == SelectSeq(rows, LAMBDA r : ~IsOwnRow(r))
    IN IF \E i \in 1..Len(ls) : RowFails(ls[i])
       THEN [status |-> "none", own_data |-> <<>>, competitors |-> <<>>]
       ELSE [status |-> "ok",
             own_data |-> IF own = <<>> THEN <<>> ELSE <<own[Len(own)]>>,
             competitors |-> SortDescending(data)]

NotParsed == [status |-> "unset", own_data |-> <<>>, competitors |-> <<>>]

-----------------------------------------------------------------------------
(* extract_domains_and_shares, one approach a step.                        *)

\* The ids an event can carry; NoId is a missing or empty event_id.
EventIds == {"Ev1", "Ev2"}

NoId == ""

\* No event has been delivered.
NoEvent == [id |-> NoId, type |-> "none", data |-> FALSE, url |-> FALSE,
            table |-> <<>>]

NotCalled == [called |-> FALSE, impression_data |-> NotParsed]

\* Two calls of handle_slack_event that may overlap.
Calls == {"one", "other"}

\* No call is under way.
NoCalls ==
    /\ hpc = [c \in Calls |-> "idle"]
    /\ call_event_id = [c \in Calls |-> NoId]

NoEvents ==
    /\ NoCalls
    /\ processed_event_ids = {}
    /\ event_timestamps = [eid \in {} |-> 0]
    /\ now = 0
    /\ event = NoEvent
    /\ status = "none"
    /\ handed = NotCalled
    /\ accepted = [eid \in {} |-> 0]
    /\ failed = {}
    /\ deliveries = 0

\* No discovery is under way.
NoResult == [status |-> "none", similar_lps |-> <<>>, source |-> "none"]

NoDiscovery ==
    /\ original_url = <<>>
    /\ additional_keywords = <<>>
    /\ impression_data = <<>>
    /\ world = [hosts |-> 0, variants |-> FALSE, failures |-> 0, ids |-> 0,
                keywords |-> 0]
    /\ dpc = "idle"
    /\ similar_lps = <<>>
    /\ existing_domains = <<>>
    /\ search_results_collection = FALSE
    /\ urlparse_bound = FALSE
    /\ o_similar_lps = <<>>
    /\ o_existing_domains = <<>>
    /\ keywords = <<>>
    /\ domain_i = 0
    /\ keyword_i = 0
    /\ result_i = 0
    /\ caller = "none"
    /\ original_runs = 0
    /\ failures = 0
    /\ succeeded = FALSE
    /\ unpaused = 0
    /\ result = NoResult

XInit ==
    /\ text \in FreeTexts \cup TableTexts \cup OccurrenceTexts
    /\ delim \in Delims
    /\ pc = "approach1"
    /\ domain_percent_pairs = <<>>
    /\ top_domains = <<>>
    /\ stagesRun = {}
    /\ caught = FALSE
    /\ outcome = "running"
    /\ pass = 1
    /\ firstResult = <<>>
    /\ impression_share_data = NotParsed
    /\ NoDiscovery
    /\ NoEvents

Approach1 ==
    /\ pc = "approach1"
    /\ domain_percent_pairs' = LinePairs(text)
    /\ stagesRun' = stagesRun \cup {1}
    /\ pc' = "approach2"
    /\ UNCHANGED <<text, delim, top_domains, caught, outcome, pass, firstResult,
                   impression_share_data>>
    /\ UNCHANGED <<dvars, evars>>

Approach2 ==
    /\ pc = "approach2"
    /\ IF domain_percent_pairs = <<>>
       THEN /\ domain_percent_pairs' = TokenPairs(text, delim)
            /\ stagesRun' = stagesRun \cup {2}
       ELSE UNCHANGED <<domain_percent_pairs, stagesRun>>
    /\ pc' = "approach3"
    /\ UNCHANGED <<text, delim, top_domains, caught, outcome, pass, firstResult,
                   impression_share_data>>
    /\ UNCHANGED <<dvars, evars>>

Approach3 ==
    /\ pc = "approach3"
    /\ IF domain_percent_pairs = <<>>
       THEN /\ stagesRun' = stagesRun \cup {3}
            /\ IF UnpackRaises(CombinedMatches(text))
               THEN /\ pc' = "except"
                    /\ UNCHANGED domain_percent_pairs
               ELSE /\ pc' = "approach4"
                    /\ domain_percent_pairs' =
                           CombinedPairs(CombinedMatches(text), 1, <<>>)
       ELSE /\ pc' = "approach4"
            /\ UNCHANGED <<domain_percent_pairs, stagesRun>>
    /\ UNCHANGED <<text, delim, top_domains, caught, outcome, pass, firstResult,
                   impression_share_data>>
    /\ UNCHANGED <<dvars, evars>>

Approach4 ==
    /\ pc = "approach4"
    /\ IF domain_percent_pairs = <<>>
       THEN /\ domain_percent_pairs' = PositionalPairs(text)
            /\ stagesRun' = stagesRun \cup {4}
       ELSE UNCHANGED <<domain_percent_pairs, stagesRun>>
    /\ pc' = "post"
    /\ UNCHANGED <<text, delim, top_domains, caught, outcome, pass, firstResult,
                   impression_share_data>>
    /\ UNCHANGED <<dvars, evars>>

\* Lines 3914 to 3931: filter, sort, cut, return.
PostFilter ==
    /\ pc = "post"
    /\ top_domains' =
           IF domain_percent_pairs # <<>>
           THEN TopDomains(SortDescending(FilterPairs(domain_percent_pairs)))
           ELSE <<>>
    /\ outcome' = "returned"
    /\ pc' = "done"
    /\ UNCHANGED <<text, delim, domain_percent_pairs, stagesRun, caught, pass,
                   firstResult, impression_share_data>>
    /\ UNCHANGED <<dvars, evars>>

\* Lines 3932 to 3935.
Except ==
    /\ pc = "except"
    /\ caught' = TRUE
    /\ top_domains' = Handler.list
    /\ outcome' = Handler.outcome
    /\ pc' = "done"
    /\ UNCHANGED <<text, delim, domain_percent_pairs, stagesRun, pass,
                   firstResult, impression_share_data>>
    /\ UNCHANGED <<dvars, evars>>

\* The returned list, rendered as analyze_csv_data renders it, is parsed
\* again.
Reparse ==
    /\ pc = "done"
    /\ pass = 1
    /\ outcome = "returned"
    /\ text' = RenderText(top_domains)
    /\ delim' = "colon"
    /\ firstResult' = top_domains
    /\ pass' = 2
    /\ pc' = "approach1"
    /\ domain_percent_pairs' = <<>>
    /\ top_domains' = <<>>
    /\ stagesRun' = {}
    /\ caught' = FALSE
    /\ outcome' = "running"
    /\ UNCHANGED impression_share_data
    /\ UNCHANGED <<dvars, evars>>

\* The tab-separated path: handle_slack_event hands the text to
\* parse_impression_share_data instead.
ParseImpression ==
    /\ pc = "approach1"
    /\ pass = 1
    /\ delim = "tab"
    /\ impression_share_data' = ParseImpressionShareData(text)
    /\ pc' = "parsed"
    /\ UNCHANGED <<text, delim, domain_percent_pairs, top_domains, stagesRun,
                   caught, outcome, pass, firstResult>>
    /\ UNCHANGED <<dvars, evars>>

XNext ==
    \/ Approach1
    \/ Approach2
    \/ Approach3
    \/ Approach4
    \/ PostFilter
    \/ Except
    \/ Reparse
    \/ ParseImpression

SpecExtract == XInit /\ [][XNext]_vars

-----------------------------------------------------------------------------
(* Claims about the extractor, checked under SpecExtract.                  *)

Returned == pc = "done" /\ outcome = "returned"

\* C1: for every input text, extract_domains_and_shares returns at most 7
\* records.
C1_AtMostSeven == Returned => Len(top_domains) <= 7

\* More than seven pairs passed the filter and seven were returned.
C1_Witness ==
    /\ Returned
    /\ Len(FilterPairs(domain_percent_pairs)) > 7
    /\ Len(top_domains) = 7

\* C2: every returned record has a share value of at least 10; a pair
\* captured with a smaller value is left out, whichever approach captured
\* it.
C2_FloorKept ==
    Returned => \A i \in 1..Len(top_domains) : top_domains[i].v >= 10

\* A pair was captured with a value under 10 and another pair was returned.
C2_Witness ==
    /\ Returned
    /\ \E i \in 1..Len(domain_percent_pairs) : domain_percent_pairs[i].v < 10
    /\ top_domains # <<>>

\* C3: every returned record has a share value of at most 100.
C3_AtMostHundred ==
    Returned => \A i \in 1..Len(top_domains) : top_domains[i].v <= 100

\* The place of a returned domain in the order of capture.
CaptureIndex(d) ==
    CHOOSE n \in 1..Len(domain_percent_pairs) : domain_percent_pairs[n].d = d

\* C4: the returned list is sorted descending by share value, and records of
\* equal value stand in the order in which their pairs were captured.
C4_SortedStable ==
    Returned =>
        \A i, j \in 1..Len(top_domains) :
            i < j =>
                /\ top_domains[i].v >= top_domains[j].v
                /\ top_domains[i].v = top_domains[j].v =>
                       CaptureIndex(top_domains[i].d) < CaptureIndex(top_domains[j].d)

\* Two records of equal value were returned, behind a record that was
\* captured after them.
C4_Witness ==
    /\ Returned
    /\ \E i, j, n \in 1..Len(top_domains) :
           /\ i < j
           /\ j < n
           /\ top_domains[j].v = top_domains[n].v
           /\ CaptureIndex(top_domains[i].d) > CaptureIndex(top_domains[n].d)

\* C5: extract_domains_and_shares never raises: whatever the text and
\* whatever fails inside an approach, the call ends by returning a list,
\* and the list it returns after a failure is empty.
C5_NeverRaises ==
    /\ outcome # "raised"
    /\ pc = "done" => outcome = "returned"
    /\ pc = "done" /\ caught => top_domains = <<>>

\* An approach raised, the handler ran and the empty list was returned.
C5_Witness == Returned /\ caught /\ pass = 1 /\ top_domains = <<>>

IdAndValue(list) == [i \in 1..Len(list) |-> <<list[i].d, list[i].v>>]

\* C6: the list rendered as one "identifier: share" line per record and
\* extracted again gives the same ordered list of (identifier, share value).
C6_Idempotent ==
    pass = 2 /\ Returned => IdAndValue(top_domains) = IdAndValue(firstResult)

\* A list of at least two records, one of them with a share written with a
\* space, was rendered and extracted again.
C6_Witness ==
    /\ pass = 2
    /\ Returned
    /\ Len(firstResult) >= 2
    /\ \E i \in 1..Len(firstResult) : firstResult[i].share.sp

Parsed == pc = "parsed" /\ impression_share_data.status = "ok"

TokensOf(t) == {t[i] : i \in 1..Len(t)}

\* The rows of the text that parse_impression_share_data reads as a
\* competitor with a below-threshold share.
CensoredRows ==
    {line \in TokensOf(NonEmptyLines(text)) :
        /\ Len(line) >= 2
        /\ line[2].k = "cens"
        /\ ~(line[1].k = "dom" /\ line[1].d = OwnRow)}

-----------------------------------------------------------------------------
(* The discovery chain.  A host name is a sequence of characters, a URL is *)
(* a record of its parts, and a search gives its results one at a time.    *)
(* The candidate sites are numbered, and a list meets them in that order,  *)
(* passing over a few at most.  A run happens in one of two worlds: a      *)
(* plain one, of many sites that answer under one host name each and whose *)
(* pages can all be analysed, and an irregular one, of few sites, where a  *)
(* site can answer with and without "www." and an analysis can fail.       *)

\* The candidate sites of the plain world.
MaxHosts == 8

\* The most identifiers the share table has in the plain world.
MaxIds == 2

\* The most keywords generate_search_keywords gives in the plain world (the
\* code cuts at 5).
MaxKeywords == 2

\* The candidate sites of the irregular world.
MaxIrregularHosts == 2

\* How many of them also answer under a "www." host name.
MaxWwwHosts == 1

\* The most page analyses that fail in one run of the irregular world.
MaxFailures == 1

\* The most identifiers and the most keywords of the irregular world.
MaxIrregularIds == 1

MaxIrregularKeywords == 1

\* The most sites a list passes over between two sites it meets.
MaxSkip == 1

\* The most results one search for an identifier gives.
MaxResults == 2

\* The count of gateway calls since the last pause stops here.
MaxUnpaused == 2

\* The discovery budget: `len(similar_lps) >= 7`, `7 - len(similar_lps)`.
Budget == 7

\* State A supplements its list when it is shorter than this.
EnoughLps == 3

\* State A searches at most this many terms.
MaxTerms == 10

\* The keyword phase looks at `search_results[:5]`.
ResultsPerKeyword == 5

Worlds ==
    {[hosts |-> MaxHosts, variants |-> FALSE, failures |-> 0,
      ids |-> MaxIds, keywords |-> MaxKeywords],
     [hosts |-> MaxIrregularHosts, variants |-> TRUE,
      failures |-> MaxFailures, ids |-> MaxIrregularIds,
      keywords |-> MaxIrregularKeywords]}

Www == <<"w", "w", "w", ".">>

Bases == <<"a", "b", "c", "d", "e", "f", "g", "h", "i">>

Host(b, w) == (IF w THEN Www ELSE <<>>) \o <<b, ".", "j", "p">>

Url(h) == [scheme |-> "https", netloc |-> h, path |-> "/"]

\* urlparse(url).netloc
NetLoc(url) == url.netloc

\* No "url" key in a search result.
NoUrl == [scheme |-> "", netloc |-> <<>>, path |-> ""]

SeedHosts == {Host("s", FALSE), Host("s", TRUE)}

\* The host names of the i-th candidate site.
HostsOf(i) ==
    {Host(Bases[i], w) :
        w \in (IF world.variants /\ i <= MaxWwwHosts THEN BOOLEAN
               ELSE {FALSE})}

\* s[i..] starts with p
StartsWithAt(s, i, p) ==
    /\ i + Len(p) - 1 <= Len(s)
    /\ SubSeq(s, i, i + Len(p) - 1) = p

\* str.replace(old, ""): every occurrence, left to right.
RECURSIVE ReplaceFrom(_, _, _)
ReplaceFrom(s, i, old) ==
    IF i > Len(s) THEN <<>>
    ELSE IF StartsWithAt(s, i, old) THEN ReplaceFrom(s, i + Len(old), old)
    ELSE <<s[i]>> \o ReplaceFrom(s, i + 1, old)

\* .replace("www.", "")
ReplaceWww(s) == ReplaceFrom(s, 1, Www)

\* The candidate site of a domain; 0 for the seed.
SiteOf(domain) ==
    IF ReplaceWww(domain) = Host("s", FALSE) THEN 0
    ELSE CHOOSE i \in 1..Len(Bases) : ReplaceWww(domain) = Host(Bases[i], FALSE)

\* The site a list of domains met last.
LastSite(domains) ==
    IF domains = <<>> THEN 0 ELSE SiteOf(domains[Len(domains)])

\* The host names the next search result of a list can have: those of the
\* seed while the list has met no site, of the site it met last, and of the
\* next ones.
Offered(domains) ==
    LET k == LastSite(domains)
        first == IF k = 0 THEN 1 ELSE k
        last == IF k + 1 + MaxSkip < world.hosts THEN k + 1 + MaxSkip
                ELSE world.hosts
    IN  (IF k # 0 THEN {}
         ELSE IF world.variants THEN SeedHosts
         ELSE {NetLoc(original_url)})
        \cup UNION {HostsOf(i) : i \in first..last}

\* `sub in s` on strings
Contains(sub, s) ==
    \E i \in 1..(Len(s) - Len(sub) + 1) : SubSeq(s, i, i + Len(sub) - 1) = sub

\* `x in list`
InList(x, list) == \E i \in 1..Len(list) : list[i] = x

\* list(dict.fromkeys(list)): the first occurrence of each element, in order.
RECURSIVE Dedupe(_, _)
Dedupe(list, acc) ==
    IF list = <<>> THEN acc
    ELSE Dedupe(Tail(list),
                IF InList(Head(list), acc) THEN acc
                ELSE Append(acc, Head(list)))

\* list[:n]
Take(list, n) == SubSeq(list, 1, IF Len(list) < n THEN Len(list) ELSE n)

\* The "自分" cell of the advertiser's own row.
OwnCell == <<"j", "i", "b", "u", "n">>

\* The keywords generate_search_keywords gives.
Keyword(i) == <<"k", "w", Bases[i]>>

GeneratedKeywords(n) == [i \in 1..n |-> Keyword(i)]

\* imp_domains: the competitors' domains, without repeats and without the
\* own row.
RECURSIVE ImpDomains(_, _)
ImpDomains(cells, acc) ==
    IF cells = <<>> THEN acc
    ELSE ImpDomains(Tail(cells),
                    IF /\ Head(cells) # <<>>
                       /\ ~InList(Head(cells), acc)
                       /\ Head(cells) # OwnCell
                    THEN Append(acc, Head(cells))
                    ELSE acc)

\* The share cell a record gets: the first competitor whose domain holds the
\* record's domain or is held by it; <<>> when there is none.
RECURSIVE ImpressionShare(_, _)
ImpressionShare(cells, domain) ==
    IF cells = <<>> THEN <<>>
    ELSE IF \/ Contains(ReplaceWww(Head(cells)), domain)
            \/ Contains(domain, ReplaceWww(Head(cells)))
         THEN Head(cells)
         ELSE ImpressionShare(Tail(cells), domain)

\* The record analyze_landing_page gives for a URL, with the fields the
\* chain adds to it.
LpAnalysis(url, domain, source) ==
    [url |-> url, source |-> source,
     impression_share |-> ImpressionShare(impression_data, domain)]

NeverFull(list) == FALSE

\* `len(similar_lps) >= 7`
Full(list) == Len(list) >= Budget

\* The search terms of State A, lines 4062 to 4087.
SearchTerms(raises, n) ==
    Dedupe(additional_keywords
               \o ImpDomains(impression_data, <<>>)
               \o (IF raises THEN <<ReplaceWww(NetLoc(original_url))>>
                   ELSE GeneratedKeywords(n)), <<>>)

\* The keywords of State C, lines 4313 to 4327.
Keywords(raises, n) ==
    IF raises THEN <<ReplaceWww(NetLoc(original_url))>>
    ELSE GeneratedKeywords(n)

\* The URLs the next search result of a list, or the AI's answer, can hold.
Urls(domains) == {Url(h) : h \in Offered(domains)}

ReturnNothingWhenEmpty(list, source) ==
    IF list = <<>> THEN NoResult
    ELSE [status |-> "returned", similar_lps |-> list, source |-> source]

\* The dictionary find_similar_landing_pages returns: State A marks its own
\* with 'source': 'ai_filtering', State C's has no such key.
ReturnValue(list, source) ==
    [status |-> "returned", similar_lps |-> list, source |-> source]

OnAnalysisErrorRaises(list, at) == [list |-> <<>>, dpc |-> "raised"]

\* `except Exception as e: ... continue` around a candidate: the list is
\* kept and the loop, which stands at `at`, goes on.
OnAnalysisError(list, at) == [list |-> list, dpc |-> at]

\* Whether some call of analyze_landing_page has given a record for a domain
\* other than the seed's, after one more call, for url, which gave a record
\* or raised.
Succeeded(url, analysed) ==
    \/ succeeded
    \/ /\ analysed
       /\ ReplaceWww(NetLoc(url)) # ReplaceWww(NetLoc(original_url))

\* The count of gateway calls since the last time.sleep after n more of them,
\* the search_duckduckgo and analyze_landing_page calls of lines 4093, 4159,
\* 4205, 4341, 4372, 4418 and 4456; MaxUnpaused stands for itself and more.
Called(count, n) ==
    IF count + n > MaxUnpaused THEN MaxUnpaused ELSE count + n

-----------------------------------------------------------------------------
(* find_similar_landing_pages and State A,                                 *)
(* find_similar_landing_pages_with_ai_filtering.                           *)

NoExtraction ==
    /\ text = <<>>
    /\ delim = "space"
    /\ pc = "idle"
    /\ domain_percent_pairs = <<>>
    /\ top_domains = <<>>
    /\ stagesRun = {}
    /\ caught = FALSE
    /\ outcome = "running"
    /\ pass = 1
    /\ firstResult = <<>>
    /\ impression_share_data = NotParsed

\* The identifiers of a share table of n rows.
Identifiers(n) == [i \in 1..n |-> Host(Bases[i], FALSE)]

\* What handle_slack_event hands over: on the /data path the rows of the
\* table as impression_data and their identifiers, the own row left out, as
\* additional_keywords; on the tab-separated path the competitors alone.
\* A table can name the seed's own domain.
DInit ==
    /\ NoExtraction
    /\ NoEvents
    /\ world \in Worlds
    /\ original_url \in {Url(h) : h \in IF world.variants THEN SeedHosts
                                         ELSE {Host("s", FALSE)}}
    /\ \E n \in 0..world.ids, path \in {"data", "seed", "tab"} :
          /\ path = "seed" => n > 0
          /\ additional_keywords =
                 CASE path = "tab" -> <<>>
                   [] path = "seed" ->
                          <<Host("s", FALSE)>> \o Identifiers(n - 1)
                   [] OTHER -> Identifiers(n)
          /\ impression_data =
                 CASE path = "data" /\ n > 0 -> <<OwnCell>> \o Identifiers(n)
                   [] path = "seed" ->
                          <<Host("s", FALSE)>> \o Identifiers(n - 1)
                   [] OTHER -> Identifiers(n)
    /\ dpc = "start"
    /\ similar_lps = <<>>
    /\ existing_domains = <<>>
    /\ search_results_collection = FALSE
    /\ urlparse_bound = FALSE
    /\ o_similar_lps = <<>>
    /\ o_existing_domains = <<>>
    /\ keywords = <<>>
    /\ domain_i = 0
    /\ keyword_i = 0
    /\ result_i = 0
    /\ caller = "none"
    /\ original_runs = 0
    /\ failures = 0
    /\ succeeded = FALSE
    /\ unpaused = 0
    /\ result = NoResult

avars == <<similar_lps, existing_domains, search_results_collection,
           urlparse_bound>>

ovars == <<o_similar_lps, o_existing_domains, keywords, domain_i, keyword_i,
           result_i, original_runs>>

inputs == <<original_url, additional_keywords, impression_data, world>>

\* Lines 4506 to 4522: the switch USE_AI_FILTERING is read from the
\* environment at each call.
Dispatch ==
    /\ dpc = "start"
    /\ \E use_ai_filtering \in BOOLEAN :
          IF use_ai_filtering
          THEN dpc' = "a_collect" /\ UNCHANGED caller
          ELSE dpc' = "o_start" /\ caller' = "direct"
    /\ UNCHANGED <<inputs, avars, ovars, failures, succeeded, unpaused,
                   result>>
    /\ UNCHANGED <<xvars, evars>>

\* Lines 4036 to 4104: the lists, the search terms, and a search for each of
\* the first ten of them.  Of the collection only its emptiness is read.
AiCollect ==
    /\ dpc = "a_collect"
    /\ \E raises \in BOOLEAN, n \in 0..world.keywords, results \in BOOLEAN :
          /\ raises => n = 0
          /\ results => Take(SearchTerms(raises, n), MaxTerms) # <<>>
          /\ urlparse_bound' = raises
          /\ search_results_collection' = results
          /\ \E empty \in 0..Len(Take(SearchTerms(raises, n), MaxTerms)) :
                /\ results => empty < Len(Take(SearchTerms(raises, n),
                                               MaxTerms))
                /\ ~results => empty = Len(Take(SearchTerms(raises, n),
                                                MaxTerms))
                /\ unpaused' = IF results THEN Called(0, empty)
                               ELSE Called(unpaused, empty)
    /\ similar_lps' = <<>>
    /\ existing_domains' = <<>>
    /\ dpc' = "a_names"
    /\ UNCHANGED <<inputs, ovars, caller, failures, succeeded, result>>
    /\ UNCHANGED <<xvars, evars>>

\* Lines 4107 to 4109: no search gave anything.
AiNoResults ==
    /\ dpc = "a_names"
    /\ ~search_results_collection
    /\ dpc' = "o_start"
    /\ caller' = "fallback"
    /\ UNCHANGED <<inputs, avars, ovars, failures, succeeded, unpaused,
                   result>>
    /\ UNCHANGED <<xvars, evars>>

\* Lines 4111 to 4150: the AI names the services, or fails to.
AiNames ==
    /\ dpc = "a_names"
    /\ search_results_collection
    /\ \E named \in BOOLEAN :
          IF named
          THEN dpc' = "a_service" /\ UNCHANGED caller
          ELSE dpc' = "o_start" /\ caller' = "fallback"
    /\ UNCHANGED <<inputs, avars, ovars, failures, succeeded, unpaused,
                   result>>
    /\ UNCHANGED <<xvars, evars>>

\* Lines 4153 to 4230: one service name.
AiService ==
    /\ dpc = "a_service"
    /\ ~Full(similar_lps)
    /\ \E service_results \in BOOLEAN :
          IF ~service_results
          THEN /\ unpaused' = Called(unpaused, 1)
               /\ UNCHANGED <<similar_lps, existing_domains, urlparse_bound,
                              failures, succeeded, dpc>>
          ELSE /\ urlparse_bound' = TRUE
               /\ \E best_url \in Urls(existing_domains) \cup {NoUrl},
                     analysed \in BOOLEAN :
                     LET domain == ReplaceWww(NetLoc(best_url))
                         original_domain == ReplaceWww(NetLoc(original_url))
                     IN  IF \/ best_url = NoUrl
                            \/ domain = original_domain
                            \/ InList(domain, existing_domains)
                         THEN /\ analysed
                              /\ unpaused' = Called(unpaused, 1)
                              /\ UNCHANGED <<similar_lps, existing_domains,
                                             failures, succeeded, dpc>>
                         ELSE /\ existing_domains' =
                                     Append(existing_domains, domain)
                              /\ succeeded' = Succeeded(best_url, analysed)
                              /\ IF analysed
                                 THEN /\ similar_lps' =
                                             Append(similar_lps,
                                                    LpAnalysis(best_url, domain,
                                                               "AI"))
                                      /\ unpaused' = 0
                                      /\ UNCHANGED <<failures, dpc>>
                                 ELSE /\ failures < world.failures
                                      /\ failures' = failures + 1
                                      /\ unpaused' = Called(unpaused, 2)
                                      /\ similar_lps' =
                                             OnAnalysisError(similar_lps,
                                                             dpc).list
                                      /\ dpc' =
                                             OnAnalysisError(similar_lps,
                                                             dpc).dpc
    /\ UNCHANGED <<inputs, search_results_collection, ovars, caller,
                   result>>
    /\ UNCHANGED <<xvars, evars>>

\* Lines 4153 to 4155, 4233 to 4236 and 4261 to 4281: the names are used up
\* or the list is full; a list shorter than 3 is supplemented by State C.
AiServiceEnd ==
    /\ dpc = "a_service"
    /\ IF Len(similar_lps) < EnoughLps
       THEN /\ dpc' = "o_start"
            /\ caller' = "supplement"
            /\ UNCHANGED result
       ELSE /\ dpc' = "done"
            /\ result' = ReturnValue(similar_lps, "ai_filtering")
            /\ UNCHANGED caller
    /\ UNCHANGED <<inputs, avars, ovars, failures, succeeded,
                   unpaused>>
    /\ UNCHANGED <<xvars, evars>>

\* Lines 4246 to 4259: the records of State C are added, while there is room
\* and unless their domain is taken.
RECURSIVE Merge(_, _, _, _, _)
Merge(remaining_results, lps, domains, added, remaining_slots) ==
    IF remaining_results = <<>> \/ added >= remaining_slots
    THEN [similar_lps |-> lps, existing_domains |-> domains]
    ELSE LET lp == Head(remaining_results)
             result_domain == ReplaceWww(NetLoc(lp.url))
         IN  IF ~InList(result_domain, domains)
             THEN Merge(Tail(remaining_results), Append(lps, lp),
                        Append(domains, result_domain), added + 1,
                        remaining_slots)
             ELSE Merge(Tail(remaining_results), lps, domains, added,
                        remaining_slots)

\* Lines 4238 to 4281.  The name urlparse is local to State A, bound by the
\* imports of lines 4081 and 4188 only: used unbound at line 4254 it raises.
AiMerge ==
    /\ dpc = "a_merge"
    /\ IF o_similar_lps # <<>> /\ ~urlparse_bound
       THEN /\ dpc' = "a_except"
            /\ UNCHANGED <<similar_lps, existing_domains, result>>
       ELSE LET merged == Merge(o_similar_lps, similar_lps, existing_domains,
                                0, Budget - Len(similar_lps))
            IN  /\ similar_lps' = merged.similar_lps
                /\ existing_domains' = merged.existing_domains
                /\ result' = ReturnValue(merged.similar_lps, "ai_filtering")
                /\ dpc' = "done"
    /\ UNCHANGED <<inputs, search_results_collection, urlparse_bound, ovars,
                   caller, failures, succeeded, unpaused>>
    /\ UNCHANGED <<xvars, evars>>

\* Lines 4282 to 4286: whatever State A raised, State C is run.
AiExcept ==
    /\ dpc = "a_except"
    /\ dpc' = "o_start"
    /\ caller' = "except"
    /\ UNCHANGED <<inputs, avars, ovars, failures, succeeded, unpaused,
                   result>>
    /\ UNCHANGED <<xvars, evars>>

-----------------------------------------------------------------------------
(* find_similar_landing_pages_original (State C).                          *)

\* Lines 4291 to 4327: the lists, and the keywords.
OriginalStart ==
    /\ dpc = "o_start"
    /\ \E raises \in BOOLEAN, n \in 0..world.keywords :
          /\ raises => n = 0
          /\ keywords' = Keywords(raises, n)
    /\ o_similar_lps' = <<>>
    /\ o_existing_domains' = <<>>
    /\ domain_i' = 0
    /\ keyword_i' = 0
    /\ result_i' = 0
    /\ original_runs' = original_runs + 1
    /\ dpc' = "o_domains"
    /\ UNCHANGED <<inputs, avars, caller, failures, succeeded, unpaused,
                   result>>
    /\ UNCHANGED <<xvars, evars>>

\* Lines 4330 to 4341: the next identifier of the table is searched.
OriginalDomain ==
    /\ dpc = "o_domains"
    /\ IF domain_i < Len(additional_keywords) /\ ~Full(o_similar_lps)
       THEN /\ domain_i' = domain_i + 1
            /\ unpaused' = Called(unpaused, 1)
            /\ \E search_results \in BOOLEAN :
                  dpc' = IF search_results THEN "o_scan" ELSE "o_domains"
       ELSE /\ dpc' = "o_keywords"
            /\ UNCHANGED <<domain_i, unpaused>>
    /\ result_i' = 0
    /\ UNCHANGED <<inputs, avars, o_similar_lps, o_existing_domains, keywords,
                   keyword_i, original_runs, caller, failures, succeeded,
                   result>>
    /\ UNCHANGED <<xvars, evars>>

\* Lines 4345 to 4401: one result of the search for an identifier, or the
\* end of its results.
OriginalScan ==
    /\ dpc = "o_scan"
    /\ \/ /\ dpc' = "o_domains"
          /\ UNCHANGED <<o_similar_lps, o_existing_domains, result_i,
                         failures, succeeded, unpaused>>
       \/ /\ result_i < MaxResults
          /\ result_i' = result_i + 1
          /\ \E result_url \in Urls(o_existing_domains) \cup {NoUrl},
                analysed \in BOOLEAN :
                LET domain == additional_keywords[domain_i]
                    result_domain == ReplaceWww(NetLoc(result_url))
                    original_domain == ReplaceWww(NetLoc(original_url))
                IN  IF \/ result_url = NoUrl
                       \/ ~(\/ Contains(domain, result_domain)
                            \/ Contains(result_domain, domain))
                       \/ result_domain = original_domain
                       \/ InList(result_domain, o_existing_domains)
                    THEN /\ analysed
                         /\ dpc' = "o_scan"
                         /\ UNCHANGED <<o_similar_lps, o_existing_domains,
                                        failures, succeeded, unpaused>>
                    ELSE /\ o_existing_domains' =
                                Append(o_existing_domains, result_domain)
                         /\ succeeded' = Succeeded(result_url, analysed)
                         /\ unpaused' = Called(unpaused, 1)
                         /\ IF analysed
                            THEN /\ o_similar_lps' =
                                        Append(o_similar_lps,
                                               LpAnalysis(result_url,
                                                          result_domain, "CSV"))
                                 /\ dpc' = "o_domains"
                                 /\ UNCHANGED failures
                            ELSE /\ failures < world.failures
                                 /\ failures' = failures + 1
                                 /\ o_similar_lps' =
                                        OnAnalysisError(o_similar_lps,
                                                        "o_scan").list
                                 /\ dpc' = OnAnalysisError(o_similar_lps,
                                                           "o_scan").dpc
    /\ UNCHANGED <<inputs, avars, keywords, domain_i, keyword_i,
                   original_runs, caller, result>>
    /\ UNCHANGED <<xvars, evars>>

\* Lines 4408 to 4423: the next keyword is searched.
OriginalKeyword ==
    /\ dpc = "o_keywords"
    /\ IF keyword_i < Len(keywords) /\ ~Full(o_similar_lps)
       THEN /\ keyword_i' = keyword_i + 1
            /\ unpaused' = Called(unpaused, 1)
            /\ \E search_results \in BOOLEAN :
                  dpc' = IF search_results THEN "o_results" ELSE "o_keywords"
       ELSE /\ dpc' = "o_return"
            /\ UNCHANGED <<keyword_i, unpaused>>
    /\ result_i' = 0
    /\ UNCHANGED <<inputs, avars, o_similar_lps, o_existing_domains, keywords,
                   domain_i, original_runs, caller, failures, succeeded,
                   result>>
    /\ UNCHANGED <<xvars, evars>>

\* Lines 4426 to 4478: one of the first five results of the search for a
\* keyword, or the end of them.
OriginalResult ==
    /\ dpc = "o_results"
    /\ \/ /\ dpc' = "o_keywords"
          /\ unpaused' = 0
          /\ UNCHANGED <<o_similar_lps, o_existing_domains, result_i,
                         failures, succeeded>>
       \/ /\ result_i < ResultsPerKeyword
          /\ ~Full(o_similar_lps)
          /\ result_i' = result_i + 1
          /\ \E result_url \in Urls(o_existing_domains) \cup {NoUrl},
                analysed \in BOOLEAN :
                LET domain == NetLoc(result_url)
                    original_domain == NetLoc(original_url)
                IN  IF \/ result_url = NoUrl
                       \/ domain = original_domain
                       \/ InList(domain, o_existing_domains)
                    THEN /\ analysed
                         /\ dpc' = "o_results"
                         /\ UNCHANGED <<o_similar_lps, o_existing_domains,
                                        failures, succeeded, unpaused>>
                    ELSE /\ o_existing_domains' =
                                Append(o_existing_domains, domain)
                         /\ succeeded' = Succeeded(result_url, analysed)
                         /\ unpaused' = Called(unpaused, 1)
                         /\ IF analysed
                            THEN /\ o_similar_lps' =
                                        Append(o_similar_lps,
                                               LpAnalysis(result_url, domain,
                                                          "KW"))
                                 /\ dpc' = "o_results"
                                 /\ UNCHANGED failures
                            ELSE /\ failures < world.failures
                                 /\ failures' = failures + 1
                                 /\ o_similar_lps' =
                                        OnAnalysisError(o_similar_lps,
                                                        "o_results").list
                                 /\ dpc' = OnAnalysisError(o_similar_lps,
                                                           "o_results").dpc
    /\ UNCHANGED <<inputs, avars, keywords, domain_i, keyword_i,
                   original_runs, caller, result>>
    /\ UNCHANGED <<xvars, evars>>

PartialReturnValue == ReturnValue(similar_lps, "ai_filtering")

\* Lines 4498 to 4503: what State C returns.
OriginalReturnValue == ReturnValue(o_similar_lps, "original")

\* Lines 4484 to 4503: State C returns its list, to State A when State A
\* called it for a supplement.
OriginalReturn ==
    /\ dpc = "o_return"
    /\ IF caller = "supplement"
       THEN dpc' = "a_merge" /\ UNCHANGED result
       ELSE dpc' = "done" /\ result' = OriginalReturnValue
    /\ UNCHANGED <<inputs, avars, ovars, caller, failures, succeeded,
                   unpaused>>
    /\ UNCHANGED <<xvars, evars>>

DNext ==
    \/ Dispatch
    \/ AiCollect
    \/ AiNoResults
    \/ AiNames
    \/ AiService
    \/ AiServiceEnd
    \/ AiMerge
    \/ AiExcept
    \/ OriginalStart
    \/ OriginalDomain
    \/ OriginalScan
    \/ OriginalKeyword
    \/ OriginalResult
    \/ OriginalReturn

SpecDiscover == DInit /\ [][DNext]_vars

-----------------------------------------------------------------------------
(* Claims about the discovery chain, checked under SpecDiscover.           *)

\* find_similar_landing_pages has returned.
Discovered == dpc = "done" /\ result.status = "returned"

\* The normalized domain of a URL: its host name without a leading "www.".
CanonicalDomain(url) ==
    IF StartsWithAt(NetLoc(url), 1, Www)
    THEN SubSeq(NetLoc(url), Len(Www) + 1, Len(NetLoc(url)))
    ELSE NetLoc(url)

\* C8: the list of State A, the list of State C and the list that
\* find_similar_landing_pages returns never hold more than 7 records, at
\* any point of a run and on every path.
C8_BudgetKept ==
    /\ Len(similar_lps) <= 7
    /\ Len(o_similar_lps) <= 7
    /\ Len(result.similar_lps) <= 7

\* State A, topped up by State C, has returned 7 records and has left out a
\* record of State C whose domain it had not taken.
C8_Witness ==
    /\ Discovered
    /\ caller = "supplement"
    /\ result.source = "ai_filtering"
    /\ Len(result.similar_lps) = 7
    /\ \E i \in 1..Len(o_similar_lps) :
          ~InList(ReplaceWww(NetLoc(o_similar_lps[i].url)), existing_domains)

\* C9: no returned record has the normalized domain of the seed URL.
C9_SeedNeverReturned ==
    Discovered =>
        \A i \in 1..Len(result.similar_lps) :
            CanonicalDomain(result.similar_lps[i].url)
                # CanonicalDomain(original_url)

\* C10: no two returned records have the same normalized domain.
C10_DistinctDomains ==
    Discovered =>
        \A i, j \in 1..Len(result.similar_lps) :
            i # j => CanonicalDomain(result.similar_lps[i].url)
                         # CanonicalDomain(result.similar_lps[j].url)

\* The domains handed to analyze_landing_page so far, in order, while State
\* A or State C is at work: each of them appends a domain to its
\* existing_domains right before it calls analyze_landing_page for it (lines
\* 4203, 4367 and 4449), and nowhere else before the merge of line 4246.
FetchedDomains ==
    IF dpc \in {"a_service", "o_start", "o_domains", "o_scan", "o_keywords",
                "o_results", "o_return", "a_merge"}
    THEN existing_domains \o o_existing_domains
    ELSE <<>>

\* C11: within one run analyze_landing_page is called at most once for a
\* normalized domain: no two of its calls, whether they gave a record or
\* raised, and whether State A or State C made them, are for the same domain.
C11_FetchedOnce ==
    \A i, j \in 1..Len(FetchedDomains) :
        i # j => ReplaceWww(FetchedDomains[i]) # ReplaceWww(FetchedDomains[j])

\* C12: when some call of analyze_landing_page has given a record for a
\* domain other than the seed's, the list find_similar_landing_pages returns
\* is not empty.
C12_YieldReturned ==
    Discovered /\ succeeded => result.similar_lps # <<>>

\* C13: when State A gives up (no search term gave results, the AI named no
\* services or raised, or an exception escaped it),
\* find_similar_landing_pages does not raise: it returns what State C
\* returns, whose records are all from the table or from a keyword and none
\* from the AI's choice.
C13_FallbackReturns ==
    /\ caller \in {"fallback", "except"} => dpc # "raised"
    /\ Discovered /\ caller \in {"fallback", "except"} =>
          /\ result = ReturnValue(o_similar_lps, "original")
          /\ \A i \in 1..Len(result.similar_lps) :
                result.similar_lps[i].source \in {"CSV", "KW"}

\* State A gave up after the AI named no services, and State C's records,
\* one from the table and one from a keyword, were returned.
C13_Witness ==
    /\ Discovered
    /\ caller = "fallback"
    /\ search_results_collection
    /\ \E i, j \in 1..Len(result.similar_lps) :
          /\ result.similar_lps[i].source = "CSV"
          /\ result.similar_lps[j].source = "KW"

\* C15: a page analysis that fails drops its candidate alone: the records
\* collected so far are kept, none is added, and the loop the failure
\* happened in (the services of State A, the results for an identifier of
\* the table, the results for a keyword) goes on where it stands.
C15_FailureDropsOne ==
    [][failures' > failures =>
          /\ similar_lps' = similar_lps
          /\ o_similar_lps' = o_similar_lps
          /\ dpc' = dpc
          /\ result' = result]_vars

\* An analysis failed after a record had been collected, and the run
\* returned that record and one collected after the failure.
C15_Witness ==
    /\ Discovered
    /\ failures > 0
    /\ Len(result.similar_lps) >= 2
    /\ Len(existing_domains) > Len(result.similar_lps)

\* C16: a run never raises, and one in which no strategy gave a record
\* returns a result whose list is empty.
C16_EmptyReturned ==
    /\ dpc # "raised"
    /\ dpc = "done" => result.status = "returned"
    /\ dpc = "done" /\ similar_lps = <<>> /\ o_similar_lps = <<>> =>
          result.similar_lps = <<>>

\* State A found nothing and an analysis failed; State C, called for a
\* supplement, searched an identifier and a keyword and found nothing; the
\* empty list was returned.
C16_Witness ==
    /\ Discovered
    /\ caller = "supplement"
    /\ failures > 0
    /\ domain_i > 0
    /\ keyword_i > 0
    /\ result.similar_lps = <<>>

\* C19: a pause comes between any two consecutive gateway calls: no search
\* or page analysis follows another without a time.sleep in between.
C19_PausedBetweenCalls == unpaused <= 1

\* The domains of the records of a list, as State A normalizes them.
CollectedDomains(lps) ==
    [i \in 1..Len(lps) |-> ReplaceWww(NetLoc(lps[i].url))]

\* The list lps with the records of State C added, in their order, that are
\* of a domain not yet in the list, until the list holds 7 records.
Supplemented(lps, records) ==
    Merge(records, lps, CollectedDomains(lps), 0, Budget - Len(lps)).similar_lps

\* State A leaves its loop over the services.
StateACompletes == dpc = "a_service" /\ dpc' # "a_service"

\* State C is entered as a supplement.
SupplementInvoked ==
    dpc # "o_start" /\ dpc' = "o_start" /\ caller' = "supplement"

\* C26: State C is invoked as a supplement exactly when State A completes
\* with fewer than 3 records; the supplement adds the records of State C
\* whose domain is not collected yet, in State C's order, until there are 7
\* records or none is left, and that list is returned; when State A
\* completes with 3 records or more, State C is not invoked and the list of
\* State A is returned as it is.
C26_SupplementWhenShort ==
    [][/\ SupplementInvoked <=>
              (StateACompletes /\ Len(similar_lps) < EnoughLps)
       /\ StateACompletes /\ Len(similar_lps) >= EnoughLps =>
              /\ dpc' = "done"
              /\ result' = ReturnValue(similar_lps, "ai_filtering")
              /\ original_runs' = 0
       /\ dpc = "a_merge" /\ dpc' # "a_merge" =>
              /\ dpc' = "done"
              /\ result' = ReturnValue(Supplemented(similar_lps, o_similar_lps),
                                       "ai_filtering")]_vars

\* C27: within one call of find_similar_landing_pages State C is executed at
\* most once, on every path; an error while the supplement is merged never
\* makes State C run a second time.
C27_OriginalRunsOnce == original_runs <= 1

-----------------------------------------------------------------------------
(* A claim about the order of the approaches, checked under SpecExtract.   *)

\* C20: the approaches are gated on usable pairs, a pair below 10 not being
\* one: once approach 2 has had its turn, its body has run if and only if
\* approach 1 captured no pair of 10 or more; so it has run when approach 1
\* captured pairs below 10 only.
C20_GatedOnUsablePairs ==
    pc \in {"approach3", "approach4", "post", "except", "done"} =>
        (2 \in stagesRun <=> FilterPairs(LinePairs(text)) = <<>>)

-----------------------------------------------------------------------------
(* Claims about the four approaches, checked under SpecExtract.            *)

\* The index of the first percentage-shaped token of a line from j on, or 0.
RECURSIVE FirstPercent(_, _)
FirstPercent(line, j) ==
    IF j > Len(line) THEN 0
    ELSE IF IsPercent(line[j]) THEN j
    ELSE FirstPercent(line, j + 1)

\* Approach 1 has just run: domain_percent_pairs is what it captured.
LineScoped == pc = "approach2"

\* The pair p joins an occurrence of its identifier with the first
\* percentage-shaped token of the rest of that line, which is not censored.
FirstPercentOfItsLine(p) ==
    \E n \in 1..Len(Lines(text)) :
        LET line == Lines(text)[n]
        IN \E i \in 1..Len(line) :
               /\ line[i] = Dom(p.d)
               /\ LET j == FirstPercent(line, i + 1)
                  IN /\ j # 0
                     /\ ~IsCensored(line[j])
                     /\ p.share = line[j]

\* C21: approach 1 pairs an identifier only with the first
\* percentage-shaped token of the rest of its own line; when that token is
\* censored the identifier gets no pair from the line, so it is never paired
\* with a later percentage that belongs to another identifier.
C21_FirstPercentOnly ==
    LineScoped =>
        \A k \in 1..Len(domain_percent_pairs) :
            FirstPercentOfItsLine(domain_percent_pairs[k])

\* The text has the identifier d on two lines, first with the share lo, then
\* with the share hi.
TwoOccurrences(d, lo, hi) == text = <<Dom(d), lo, NL, Dom(d), hi>>

\* C22: a percentage below 10 is discarded when approach 1 pairs and does not
\* count as the capture of its identifier: an identifier whose first
\* occurrence carries a value below 10 and whose occurrence on a later line
\* carries a value of 10 or more is returned with the later value.
C22_LaterValueKept ==
    Returned =>
        \A d \in OccurrenceDomains, lo, hi \in OccurrenceShares :
            /\ TwoOccurrences(d, lo, hi)
            /\ ~IsCensored(lo) /\ lo.v < ShareFloor
            /\ ~IsCensored(hi) /\ hi.v >= ShareFloor
            => \E k \in 1..Len(top_domains) :
                   top_domains[k].d = d /\ top_domains[k].v = hi.v

\* Token i of the text is an identifier and the next token is a bare number
\* of 10 or more.
BareNumberFollows(i) ==
    /\ i + 1 <= Len(text)
    /\ text[i].k = "dom"
    /\ text[i + 1].k = "num"
    /\ text[i + 1].v >= ShareFloor

\* C23: when approaches 1 and 2 captured nothing and an identifier of the
\* text is followed by a bare number of 10 or more, approach 3 pairs the two
\* and the extractor returns a list that holds the pair.
C23_LooseStagePairs ==
    pc = "done" /\ 3 \in stagesRun =>
        \A i \in 1..Len(text) :
            BareNumberFollows(i) =>
                /\ outcome = "returned"
                /\ \E k \in 1..Len(top_domains) :
                       /\ top_domains[k].d = text[i].d
                       /\ top_domains[k].v = text[i + 1].v

\* The percentages of 10 or more that a text shows, largest first.
ShownPercents(t) ==
    SortPercents(SelectSeq(t, LAMBDA tok : tok.k = "pct" /\ tok.v >= ShareFloor))

NoneCensored(t) == \A i \in 1..Len(t) : ~IsCensored(t[i])

\* C24: when the three earlier approaches captured nothing, approach 4
\* collects the identifiers and the percentages of 10 or more and, if their
\* counts differ by less than 5, pairs the i-th identifier with the i-th
\* largest percentage, up to 7 pairs, which are returned.
C24_PositionalPairs ==
    Returned /\ 4 \in stagesRun /\ NoneCensored(text) =>
        LET ds == AllDomains(text)
            ps == ShownPercents(text)
            n == IF Len(ds) < Len(ps) THEN Len(ds) ELSE Len(ps)
            m == IF n < TopCount THEN n ELSE TopCount
        IN Len(ds) > 0 /\ Len(ps) > 0 /\ Abs(Len(ds) - Len(ps)) < 5 =>
               /\ Len(top_domains) = m
               /\ \A i \in 1..m :
                      /\ top_domains[i].d = ds[i].d
                      /\ top_domains[i].v = ps[i].v

\* C25: the returned records have pairwise distinct identifiers, whichever
\* approach produced them.
C25_DistinctIdentifiers ==
    Returned =>
        \A i, j \in 1..Len(top_domains) :
            i # j => top_domains[i].d # top_domains[j].d

\* An identifier stands twice in the text, each time before a percentage of
\* 10 or more, and is returned once, with the first of the two.
C25_Witness ==
    /\ Returned
    /\ pass = 1
    /\ \E d \in OccurrenceDomains, s1, s2 \in OccurrenceShares,
          sep \in {<<>>, <<NL>>} :
           /\ text = <<Dom(d), s1>> \o sep \o <<Dom(d), s2>>
           /\ ~IsCensored(s1) /\ s1.v >= ShareFloor
           /\ ~IsCensored(s2) /\ s2.v >= ShareFloor
           /\ s1 # s2
           /\ Len(top_domains) = 1
           /\ top_domains[1].d = d
           /\ top_domains[1].v = s1.v

-----------------------------------------------------------------------------
(* handle_slack_event: the cache of event ids and the share table kept in  *)
(* the global impression_share_data.  A call is one step; the clock moves  *)
(* between the calls.  Of the text of an event the model keeps whether it  *)
(* holds the /data option, whether it holds a URL, and the rows of its     *)
(* share table, if it has one.                                             *)

\* The clock stops here.
MaxClock == 404

\* The most calls of handle_slack_event.
MaxDeliveries == 3

\* `EVENT_CACHE_TTL = 60 * 5`
EVENT_CACHE_TTL == 300

\* How far the clock moves in one step.
Advances == {100, 101}

\* The share tables of the events: two that parse_impression_share_data
\* reads, and one whose share cell, "30%", it cannot turn into a number.
ReadTables ==
    {<<Dom("a.com"), Pct(30, TRUE), NL>>, <<Dom("b.com"), Pct(20, TRUE), NL>>}

UnreadTable == <<Dom("a.com"), Pct(30, FALSE), NL>>

\* The texts of the app mentions: a table alone, a table and a URL, a URL
\* alone, the /data option with a URL and a table, the /data option alone,
\* and none of them.
EventTexts ==
    [data : {FALSE}, url : {FALSE}, table : ReadTables \cup {UnreadTable}]
        \cup [data : {FALSE}, url : {TRUE}, table : ReadTables \cup {<<>>}]
        \cup [data : {TRUE}, url : {TRUE}, table : {UnreadTable}]
        \cup [data : {TRUE, FALSE}, url : {FALSE}, table : {<<>>}]

\* The events delivered: app mentions, and events of a type
\* handle_slack_event does not handle.
Events ==
    {[id |-> id, type |-> "app_mention", data |-> t.data, url |-> t.url,
      table |-> t.table] : id \in EventIds \cup {NoId}, t \in EventTexts}
        \cup {[id |-> id, type |-> "other", data |-> FALSE, url |-> FALSE,
               table |-> <<>>] : id \in EventIds \cup {NoId}}

NothingExpired(ts, current_time) == FALSE

\* `current_time - ts > EVENT_CACHE_TTL`
Expired(ts, current_time) == current_time - ts > EVENT_CACHE_TTL

\* Lines 255 to 263: the ids the sweep leaves in the cache.
Swept(current_time) ==
    {eid \in DOMAIN event_timestamps :
        ~Expired(event_timestamps[eid], current_time)}

NeverDuplicate(event_id, ids) == FALSE

\* `event_id and event_id in processed_event_ids`
Duplicate(event_id, ids) == event_id # NoId /\ event_id \in ids

\* A map that is left as it was.
Unstamped(map, eid, ts) == map

\* A map with one more entry.
Stamped(map, eid, ts) ==
    [x \in DOMAIN map \cup {eid} |-> IF x = eid THEN ts ELSE map[x]]

\* Handlers that take the id of the failed event out of the cache.
OnHandlingErrorForgets(ids, eid) == ids \ {eid}

\* Lines 528 to 540: the two handlers of an exception log it and return an
\* error; the cache of ids is left as it is.
OnHandlingError(ids, eid) == ids

\* Lines 358 to 366: the impression_data the /data path builds from the
\* rows analyze_csv_data extracted from the text of the event.
DataImpression(t) ==
    [status |-> "ok", own_data |-> <<>>,
     competitors |-> TopDomains(SortDescending(FilterPairs(LinePairs(t))))]

\* `find_similar_landing_pages(target_url, analysis_result, table)`
Call(table) == [called |-> TRUE, impression_data |-> table]

\* The clock moves on.
Tick ==
    /\ \E d \in Advances :
          /\ now + d <= MaxClock
          /\ now' = now + d
    /\ UNCHANGED <<processed_event_ids, event_timestamps, event, status,
                   handed, accepted, failed, deliveries, hpc,
                   call_event_id>>
    /\ UNCHANGED <<xvars, dvars>>

\* Lines 246 to 247: a call without an event.
HandleNoEvent ==
    /\ deliveries < MaxDeliveries
    /\ deliveries' = deliveries + 1
    /\ event' = NoEvent
    /\ status' = "No event found"
    /\ handed' = NotCalled
    /\ UNCHANGED <<processed_event_ids, event_timestamps, now, accepted,
                   failed, hpc, call_event_id>>
    /\ UNCHANGED <<xvars, dvars>>

\* Lines 249 to 540: a call with an event.  `raised` stands for an exception
\* of the analysis of the seed page or of the making of the report.
HandleSlackEvent ==
    /\ deliveries < MaxDeliveries
    /\ deliveries' = deliveries + 1
    /\ \E e \in Events, raised \in BOOLEAN :
          LET kept == Swept(now)
              timestamps == [eid \in kept |-> event_timestamps[eid]]
              has_csv_data == e.table # <<>>
              parsed == ParseImpressionShareData(e.table)
          IN  /\ event' = e
              /\ IF Duplicate(e.id, processed_event_ids \cap kept)
                 THEN /\ ~raised
                      /\ processed_event_ids' = processed_event_ids \cap kept
                      /\ event_timestamps' = timestamps
                      /\ status' = "Duplicate event skipped"
                      /\ handed' = NotCalled
                      /\ UNCHANGED <<accepted, failed,
                                     impression_share_data>>
                 ELSE /\ IF e.id # NoId
                         THEN /\ processed_event_ids' =
                                     IF raised
                                     THEN OnHandlingError(
                                              (processed_event_ids \cap kept)
                                                  \cup {e.id}, e.id)
                                     ELSE (processed_event_ids \cap kept)
                                              \cup {e.id}
                              /\ event_timestamps' =
                                     Stamped(timestamps, e.id, now)
                              /\ accepted' = Stamped(accepted, e.id, now)
                              /\ failed' = IF raised THEN failed \cup {e.id}
                                           ELSE failed \ {e.id}
                         ELSE /\ processed_event_ids' =
                                     processed_event_ids \cap kept
                              /\ event_timestamps' = timestamps
                              /\ UNCHANGED <<accepted, failed>>
                      /\ CASE e.type = "other" ->
                                /\ ~raised
                                /\ status' = "Event not handled"
                                /\ handed' = NotCalled
                                /\ UNCHANGED impression_share_data
                           [] e.type # "other" /\ e.data /\ has_csv_data ->
                                /\ status' = IF raised THEN "error"
                                             ELSE "success"
                                /\ handed' = Call(DataImpression(e.table))
                                /\ UNCHANGED impression_share_data
                           [] e.type # "other" /\ ~e.data /\ has_csv_data
                                  /\ parsed.status # "ok" ->
                                /\ ~raised
                                /\ impression_share_data' = parsed
                                /\ status' = "error"
                                /\ handed' = NotCalled
                           [] e.type # "other" /\ ~e.data
                                  /\ (has_csv_data => parsed.status = "ok")
                                  /\ e.url ->
                                /\ impression_share_data' =
                                       IF has_csv_data THEN parsed
                                       ELSE impression_share_data
                                /\ status' = IF raised THEN "error"
                                             ELSE "success"
                                /\ handed' =
                                       IF raised THEN NotCalled
                                       ELSE Call(impression_share_data')
                           [] OTHER ->
                                /\ ~raised
                                /\ impression_share_data' =
                                       IF has_csv_data /\ ~e.data THEN parsed
                                       ELSE impression_share_data
                                /\ status' = "error"
                                /\ handed' = NotCalled
    /\ UNCHANGED <<now, hpc, call_event_id>>
    /\ UNCHANGED <<text, delim, pc, domain_percent_pairs, top_domains,
                   stagesRun, caught, outcome, pass, firstResult>>
    /\ UNCHANGED dvars

EInit ==
    /\ NoExtraction
    /\ NoDiscovery
    /\ NoEvents

ENext ==
    \/ Tick
    \/ HandleNoEvent
    \/ HandleSlackEvent

SpecEvents == EInit /\ [][ENext]_vars

-----------------------------------------------------------------------------
(* Claims about the handling of events, checked under SpecEvents.          *)

\* C14: no share table survives from one event to the next: when a call
\* hands a share table to find_similar_landing_pages, the event of that
\* call carried a table.
C14_NoTableSurvives ==
    handed.called /\ handed.impression_data.status = "ok" =>
        event.table # <<>>

\* A call that carries an event.
Handled == deliveries' # deliveries /\ event' # NoEvent

\* C17: a delivery of an id that was accepted no more than EVENT_CACHE_TTL
\* seconds ago is answered 'Duplicate event skipped', hands nothing to the
\* discovery and changes neither the share table nor the time of
\* acceptance; a delivery of an id accepted longer ago is accepted again.
C17_IdempotentWithinTtl ==
    [][Handled /\ event'.id \in DOMAIN accepted =>
          IF now - accepted[event'.id] <= 300
          THEN /\ status' = "Duplicate event skipped"
               /\ handed' = NotCalled
               /\ impression_share_data' = impression_share_data
               /\ accepted' = accepted
          ELSE /\ status' # "Duplicate event skipped"
               /\ accepted'[event'.id] = now]_vars

\* An id was delivered again exactly EVENT_CACHE_TTL seconds after it had
\* been accepted, and was skipped.
C17_Witness ==
    /\ status = "Duplicate event skipped"
    /\ event.id \in DOMAIN accepted
    /\ now - accepted[event.id] = 300

\* C18: at the end of a call that carries an event, no entry of the cache
\* is more than EVENT_CACHE_TTL seconds older than the time of the call's
\* sweep, the set and the map hold the same ids, and there are no more of
\* them than ids accepted within the last EVENT_CACHE_TTL seconds.
C18_CacheSwept ==
    [][Handled =>
          /\ processed_event_ids' = DOMAIN event_timestamps'
          /\ \A eid \in processed_event_ids' :
                now - event_timestamps'[eid] <= 300
          /\ Cardinality(processed_event_ids')
                 <= Cardinality({eid \in DOMAIN accepted' :
                                    now - accepted'[eid] <= 300})]_vars

\* A call has swept the one id out of the cache, accepted more than
\* EVENT_CACHE_TTL seconds before, and has accepted the other.
C18_Witness ==
    /\ processed_event_ids = {"Ev2"}
    /\ event.id = "Ev2"
    /\ "Ev1" \in DOMAIN accepted
    /\ now = accepted["Ev2"]
    /\ now - accepted["Ev1"] > 300

\* C28: after any sequence of calls the set processed_event_ids holds
\* exactly the keys of the map event_timestamps; an event without an id is
\* added to neither and is never answered as a duplicate.
C28_SetIsKeySet ==
    /\ processed_event_ids = DOMAIN event_timestamps
    /\ NoId \notin processed_event_ids
    /\ event # NoEvent /\ event.id = NoId =>
           status # "Duplicate event skipped"

\* Both ids are in the cache, and an app mention without an id has then been
\* handled as a new event.
C28_Witness ==
    /\ processed_event_ids = EventIds
    /\ DOMAIN event_timestamps = EventIds
    /\ event.type = "app_mention"
    /\ event.id = NoId
    /\ status = "success"

\* C29: the id of an event is recorded before the event is handled and is
\* not removed when the handling ends in an error: the id is in the cache
\* at the end of such a call, and a delivery of it within EVENT_CACHE_TTL
\* seconds is skipped although the first handling failed.
C29_FailedStillSkipped ==
    [][/\ Handled /\ event'.id # NoId /\ status' = "error" =>
              /\ event'.id \in processed_event_ids'
              /\ event_timestamps'[event'.id] = accepted'[event'.id]
       /\ Handled /\ event'.id \in failed
              /\ now - accepted[event'.id] <= EVENT_CACHE_TTL =>
              /\ status' = "Duplicate event skipped"
              /\ handed' = NotCalled
              /\ failed' = failed]_vars

\* The handling of an id raised, and a later delivery of the id, within
\* EVENT_CACHE_TTL seconds and not at the same time, has been skipped.
C29_Witness ==
    /\ status = "Duplicate event skipped"
    /\ event.id \in failed
    /\ now > accepted[event.id]
    /\ handed = NotCalled

-----------------------------------------------------------------------------
(* Two calls of handle_slack_event that overlap, as two threads of one     *)
(* process run them: the cache is shared, nothing locks it, and a call is  *)
(* a sequence of steps, one per statement of lines 251 to 273.  The clock  *)
(* stands still while the two calls run.                                   *)

\* How long ago the ids found in the cache were stamped.
Ages == {0, EVENT_CACHE_TTL, EVENT_CACHE_TTL + 1}

\* The other parts of the event handling, which these steps leave alone.
rest == <<event, status, handed, accepted, failed, deliveries>>

\* The function f with the value v at c.
SetAt(f, c, v) == [f EXCEPT ![c] = v]

CInit ==
    /\ NoExtraction
    /\ NoDiscovery
    /\ NoCalls
    /\ processed_event_ids \in SUBSET EventIds
    /\ event_timestamps \in
           [processed_event_ids -> {MaxClock - age : age \in Ages}]
    /\ now = MaxClock
    /\ event = NoEvent
    /\ status = "none"
    /\ handed = NotCalled
    /\ accepted = [eid \in {} |-> 0]
    /\ failed = {}
    /\ deliveries = 0

\* Lines 246 to 252: a call begins and reads the id of its event.
CallEnters ==
    /\ \E c \in Calls, eid \in EventIds \cup {NoId} :
          /\ hpc[c] = "idle"
          /\ hpc' = SetAt(hpc, c, "sweep")
          /\ call_event_id' = SetAt(call_event_id, c, eid)
    /\ UNCHANGED <<processed_event_ids, event_timestamps, now, rest>>
    /\ UNCHANGED <<xvars, dvars>>

\* Lines 255 to 263: the call sweeps the expired ids out of the cache.
CallSweeps ==
    /\ \E c \in Calls :
          /\ hpc[c] = "sweep"
          /\ hpc' = SetAt(hpc, c, "check")
    /\ processed_event_ids' =
           processed_event_ids \ (DOMAIN event_timestamps \ Swept(now))
    /\ event_timestamps' = [eid \in Swept(now) |-> event_timestamps[eid]]
    /\ UNCHANGED <<call_event_id, now, rest>>
    /\ UNCHANGED <<xvars, dvars>>

\* Lines 266 to 268: the duplicate test; a duplicate ends the call.
CallChecks ==
    /\ \E c \in Calls :
          /\ hpc[c] = "check"
          /\ hpc' = SetAt(hpc, c,
                          IF Duplicate(call_event_id[c], processed_event_ids)
                          THEN "idle"
                          ELSE IF call_event_id[c] = NoId THEN "handle"
                          ELSE "add")
    /\ UNCHANGED <<processed_event_ids, event_timestamps, call_event_id, now,
                   rest>>
    /\ UNCHANGED <<xvars, dvars>>

\* Line 272: the id is added to the set.
CallAdds ==
    /\ \E c \in Calls :
          /\ hpc[c] = "add"
          /\ hpc' = SetAt(hpc, c, "stamp")
          /\ processed_event_ids' =
                 processed_event_ids \cup {call_event_id[c]}
    /\ UNCHANGED <<event_timestamps, call_event_id, now, rest>>
    /\ UNCHANGED <<xvars, dvars>>

\* Line 273: the id is stamped in the map, and the handling begins.
CallStamps ==
    /\ \E c \in Calls :
          /\ hpc[c] = "stamp"
          /\ hpc' = SetAt(hpc, c, "handle")
          /\ event_timestamps' =
                 Stamped(event_timestamps, call_event_id[c], now)
    /\ UNCHANGED <<processed_event_ids, call_event_id, now, rest>>
    /\ UNCHANGED <<xvars, dvars>>

\* Lines 275 to 540: the event is handled, and the call returns.
CallReturns ==
    /\ \E c \in Calls :
          /\ hpc[c] = "handle"
          /\ hpc' = SetAt(hpc, c, "idle")
    /\ UNCHANGED <<processed_event_ids, event_timestamps, call_event_id, now,
                   rest>>
    /\ UNCHANGED <<xvars, dvars>>

CNext ==
    \/ CallEnters
    \/ CallSweeps
    \/ CallChecks
    \/ CallAdds
    \/ CallStamps
    \/ CallReturns

SpecConcurrent == CInit /\ [][CNext]_vars

\* C30: when two deliveries of one event id are handled by calls that
\* overlap, at most one of the calls passes the duplicate test and starts to
\* handle the event.
C30_AtMostOnePasses ==
    \A c1, c2 \in Calls :
        /\ c1 # c2
        /\ call_event_id[c1] # NoId
        /\ call_event_id[c1] = call_event_id[c2]
        => ~(hpc[c1] = "handle" /\ hpc[c2] = "handle")

=============================================================================
